---- MODULE Spec2Model ----
(***************************************************************************)
(* Model of the historical backfill of hwkimv/crypto-data-pipeline:        *)
(* DataCollector.fetch_all_historical_data (src/src/data_collector.py)     *)
(* driving DataCollector.fetch_ohlcv against the exchange client.          *)
(*                                                                         *)
(* Time.  The program counts in milliseconds since the epoch and in naive  *)
(* UTC datetimes.  The model keeps both representations and the            *)
(* conversions between them, on a clock whose units are scaled down: a     *)
(* second has MsPerSec ticks, a minute SecPerMin seconds, an hour          *)
(* MinPerHour minutes and a day HourPerDay hours.  Tick 0 is 00:00:00.000  *)
(* of the first calendar date the model can name.                          *)
(*                                                                         *)
(* The exchange (ccxt, not part of the repository) is the environment: a   *)
(* request is answered by an exception, by an empty list, by the regular   *)
(* page of its candle store, or (once per call) by an irregular page whose *)
(* rows overlap, repeat, are out of order or lie off the candle grid.      *)
(***************************************************************************)
EXTENDS Integers, Sequences, FiniteSets, TLC

\* ------------------------------------------------------------------ bounds
MsPerSec == 2
SecPerMin == 2
MinPerHour == 2
HourPerDay == 2
\* stands for limit=1000 of the call at data_collector.py:124
Limit == 2
\* fail_streak counts consecutive failures and saturates here
MaxStreak == 2

\* ------------------------------------------------------- program constants
\* time.sleep(0.5) and time.sleep(2), in milliseconds
PaceDelay == 500
BackoffDelay == 2000

\* ------------------------------------------------------------------- clock
Second == MsPerSec
Minute == SecPerMin * Second
Hour == MinPerHour * Minute
Day == HourPerDay * Hour

\* calendar dates a caller passes as start_date / end_date
DATES == 0 .. 1

\* timeframes of the constructor's docstring: the shortest, one between, the longest
TIMEFRAMES == {"1m", "1h", "1d"}

\* the candle interval the exchange uses for a timeframe
Interval(tf) == CASE tf = "1m" -> Minute
                  [] tf = "1h" -> Hour
                  [] tf = "1d" -> Day

\* the step the backfill loop adds to the last timestamp: + 60000  (+1 minute)
CursorStep == Minute

\* pd.to_datetime(ms, unit='ms', utc=True).dt.tz_localize(None)
ToDatetime(ms) == [day |-> ms \div Day, tod |-> ms % Day]

\* int(ts.timestamp() * 1000)
ToMs(dt) == dt.day * Day + dt.tod

DtLeq(a, b) == a.day < b.day \/ (a.day = b.day /\ a.tod <= b.tod)
DtLess(a, b) == a.day < b.day \/ (a.day = b.day /\ a.tod < b.tod)

\* strptime(start_date).replace(tzinfo=utc).timestamp() * 1000
StartTs(date) == ToMs([day |-> date, tod |-> 0])

\* end_dt.replace(hour=23, minute=59, second=59, microsecond=999000)
EndTs(date) ==
    ToMs([day |-> date,
          tod |-> (HourPerDay - 1) * Hour + (MinPerHour - 1) * Minute
                  + (SecPerMin - 1) * Second + (MsPerSec - 1)])

\* strptime(end_date).replace(hour=23, minute=59, second=59)
EndDatetime(date) ==
    [day |-> date,
     tod |-> (HourPerDay - 1) * Hour + (MinPerHour - 1) * Minute
             + (SecPerMin - 1) * Second]


\* ------------------------------------------------------------ the exchange
Min(a, b) == IF a <= b THEN a ELSE b

\* The newest candle the exchange holds (its "now"): inside the first day,
\* inside the second day, or past every window.
LATEST == {Minute, Day + Hour, 3 * Day}

\* page sizes the exchange may cap a request at
SERVER_CAPS == 1 .. Limit

\* exchange.fetch_ohlcv(symbol, timeframe, since, limit) of a well-behaved
\* exchange: the first candles of the timeframe's grid at or after `since`, in
\* ascending order, at most `limit` (and at most the server's own cap) of them.
\* A raw row is (timestamp_ms, content); rev names the content of the candle.
RegularPage(since, limit, tf, newest, cap) ==
    LET I == Interval(tf)
        first == ((since + I - 1) \div I) * I
        n == IF first > newest THEN 0
             ELSE Min(Min(limit, cap), (newest - first) \div I + 1)
    IN  [i \in 1 .. n |-> [t |-> first + (i - 1) * I, rev |-> 0]]

\* Instants an irregular page may carry: the candle before `since` (overlap),
\* `since` itself and the end boundary of the window to the tick.
Probes(since, tf, end_date) ==
    {t \in {since - Interval(tf), since, since + Interval(tf),
            ToMs(EndDatetime(end_date)), ToMs(EndDatetime(end_date)) + 1,
            EndTs(end_date), EndTs(end_date) + 1} : t >= 0}

\* Pages of a misbehaving exchange: one or two rows, any order, repeats allowed,
\* with a content (rev 1) that differs from the regular candle's.
IrregularPages(since, tf, end_date) ==
    LET R == {[t |-> x, rev |-> 1] : x \in Probes(since, tf, end_date)}
    IN  {<<a>> : a \in R} \cup {<<a, b>> : a \in R, b \in R}

\* ------------------------------------------------------------- fetch_ohlcv
\* DataFrame(ohlcv, columns=[...]) with the timestamp column converted
fetch_ohlcv(ohlcv) ==
    [i \in 1 .. Len(ohlcv) |->
        [timestamp |-> ToDatetime(ohlcv[i].t), rev |-> ohlcv[i].rev]]

\* ---------------------------------------------------------- the merge step
RECURSIVE Concat(_)
\* pd.concat(all_data, ignore_index=True)
Concat(frames) ==
    IF frames = <<>> THEN <<>>
    ELSE frames[1] \o Concat(Tail(frames))

\* drop_duplicates without effect (a plausible slip)
DropDuplicatesNone(df) == df

\* only a repeat of the row just before is dropped (a plausible slip)
DropDuplicatesAdjacent(df) ==
    LET F[i \in 0 .. Len(df)] ==
            IF i = 0 THEN <<>>
            ELSE IF i > 1 /\ df[i - 1].timestamp = df[i].timestamp
                 THEN F[i - 1]
                 ELSE Append(F[i - 1], df[i])
    IN  F[Len(df)]

\* df.drop_duplicates(subset=['timestamp']): the first row of every timestamp
DropDuplicates(df) ==
    LET F[i \in 0 .. Len(df)] ==
            IF i = 0 THEN <<>>
            ELSE IF \E j \in 1 .. i - 1 : df[j].timestamp = df[i].timestamp
                 THEN F[i - 1]
                 ELSE Append(F[i - 1], df[i])
    IN  F[Len(df)]

RECURSIVE Insert(_, _)
Insert(row, sorted) ==
    IF sorted = <<>> THEN <<row>>
    ELSE IF DtLess(row.timestamp, sorted[1].timestamp)
         THEN <<row>> \o sorted
         ELSE <<sorted[1]>> \o Insert(row, Tail(sorted))

RECURSIVE SortValues(_)
\* df.sort_values('timestamp').reset_index(drop=True)
SortValues(df) ==
    IF df = <<>> THEN <<>>
    ELSE Insert(df[Len(df)], SortValues(SubSeq(df, 1, Len(df) - 1)))

\* combined_df[combined_df['timestamp'] <= end_datetime]
Truncate(df, end_date) ==
    SelectSeq(df, LAMBDA r : DtLeq(r.timestamp, EndDatetime(end_date)))

\* lines 157-166: concat, drop_duplicates, sort_values, truncate
Merge(frames, end_date) ==
    Truncate(SortValues(DropDuplicates(Concat(frames))), end_date)

\* ------------------------------------------------------------------- state
VARIABLES
    timeframe,      \* self.timeframe
    start_date,     \* argument start_date
    end_date,       \* argument end_date
    newest,         \* exchange: timestamp_ms of its newest candle
    server_cap,     \* exchange: its own page size cap
    pc,             \* position of the call: loop, fetching, after_loop, returned, raised
    current_ts,     \* the cursor
    all_data,       \* the accumulated batches
    batch_count,    \* number of batches appended
    since,          \* `since` of the request in flight, or of the last one made
    in_flight,      \* requests sent to the exchange and not yet answered
    slept,          \* milliseconds slept since the last answer was handled
    last_outcome,   \* none, batch, empty, fail: how the last request ended
    fail_streak,    \* consecutive failures so far (saturating at MaxStreak)
    regular,        \* every answer of this call was the regular page
    combined_df,    \* the returned series
    error,          \* the exception the call ended with
    prev_data       \* all_data of an earlier, completed backfill of the window

vars == <<timeframe, start_date, end_date, newest, server_cap, pc, current_ts,
          all_data, batch_count, since, in_flight, slept, last_outcome,
          fail_streak, regular, combined_df, error, prev_data>>

inputs == <<timeframe, start_date, end_date, newest, server_cap>>

\* The library calls (TechnicalIndicators' static functions and
\* DataCollector.validate_data applied to inputs of bounded sets) have their
\* own state and their own specification, LibSpec.
VARIABLES
    call,           \* the call made: function name and arguments
    ret             \* what the call returned

lib_vars == <<call, ret>>

LibIdle == call = [fn |-> "none"] /\ ret = [fn |-> "none"]

\* One CryptoDataPipeline object and the calls made on it have their own state
\* and their own specification, PipeSpec.
VARIABLES
    self_data,      \* self.data: nothing, or the frame held
    run_pc,         \* where run is: idle, step1 .. step4, returned, raised
    stages,         \* the stages the current run went through, with outcomes
    fetched,        \* the series the current run's fetch returned
    written,        \* what the last to_csv wrote
    calls           \* run and save_to_csv calls made so far

pipe_vars == <<self_data, run_pc, stages, fetched, written, calls>>

\* None
Nothing == [none |-> TRUE]

\* a frame held in an attribute
Held(df) == [none |-> FALSE, df |-> df]

\* line 32, before any call: self.data = None
PipeIdle ==
    /\ self_data = Nothing
    /\ run_pc = "idle"
    /\ stages = <<>>
    /\ fetched = Nothing
    /\ written = Nothing
    /\ calls = 0

others == <<lib_vars, pipe_vars>>

start_ts == StartTs(start_date)
end_ts == EndTs(end_date)

\* lines 116-118 and the state of a call that has made no request yet
Init ==
    /\ timeframe \in TIMEFRAMES
    /\ start_date \in DATES
    /\ end_date \in DATES
    /\ newest \in LATEST
    /\ server_cap \in SERVER_CAPS
    /\ pc = "loop"
    /\ current_ts = StartTs(start_date)
    /\ all_data = <<>>
    /\ batch_count = 0
    /\ since = -1
    /\ in_flight = 0
    /\ slept = 0
    /\ last_outcome = "none"
    /\ fail_streak = 0
    /\ regular = TRUE
    /\ combined_df = <<>>
    /\ error = "none"
    /\ prev_data = <<>>
    /\ LibIdle
    /\ PipeIdle

\* line 121 and the call of line 124: the loop test, then the request goes out
LoopTest ==
    /\ pc = "loop"
    /\ IF current_ts < end_ts
       THEN /\ pc' = "fetching"
            /\ since' = current_ts
            /\ in_flight' = in_flight + 1
       ELSE /\ pc' = "after_loop"
            /\ UNCHANGED <<since, in_flight>>
    /\ UNCHANGED <<inputs, current_ts, all_data, batch_count, slept,
                   last_outcome, fail_streak, regular, combined_df, error,
                   prev_data>>
    /\ UNCHANGED others

\* the handler skipping the page that failed (a plausible slip)
FetchFailsSkips ==
    /\ pc = "fetching"
    /\ in_flight' = in_flight - 1
    /\ slept' = BackoffDelay
    /\ last_outcome' = "fail"
    /\ fail_streak' = Min(fail_streak + 1, MaxStreak)
    /\ pc' = "loop"
    /\ current_ts' = current_ts + CursorStep
    /\ UNCHANGED <<inputs, all_data, batch_count, since, regular,
                   combined_df, error, prev_data>>
    /\ UNCHANGED others

\* the handler giving up after MaxStreak consecutive failures (a retry cap)
FetchFailsGivesUp ==
    /\ pc = "fetching"
    /\ in_flight' = in_flight - 1
    /\ slept' = BackoffDelay
    /\ last_outcome' = "fail"
    /\ fail_streak' = Min(fail_streak + 1, MaxStreak)
    /\ IF fail_streak' = MaxStreak
       THEN pc' = "raised" /\ error' = "TransientFetchFailure"
       ELSE pc' = "loop" /\ UNCHANGED error
    /\ UNCHANGED <<inputs, current_ts, all_data, batch_count, since, regular,
                   combined_df, prev_data>>
    /\ UNCHANGED others

\* lines 77-79 and 148-151: the request raises; print, sleep(2), continue
FetchFails ==
    /\ pc = "fetching"
    /\ in_flight' = in_flight - 1
    /\ slept' = BackoffDelay
    /\ last_outcome' = "fail"
    /\ fail_streak' = Min(fail_streak + 1, MaxStreak)
    /\ pc' = "loop"
    /\ UNCHANGED <<inputs, current_ts, all_data, batch_count, since, regular,
                   combined_df, error, prev_data>>
    /\ UNCHANGED others

\* an empty frame handled like a failure: sleep and ask again (a plausible slip)
FetchEmptyRetries ==
    /\ pc = "fetching"
    /\ in_flight' = in_flight - 1
    /\ slept' = BackoffDelay
    /\ last_outcome' = "empty"
    /\ fail_streak' = 0
    /\ regular' = (regular /\ RegularPage(since, Limit, timeframe, newest, server_cap) = <<>>)
    /\ pc' = "loop"
    /\ UNCHANGED <<inputs, current_ts, all_data, batch_count, since,
                   combined_df, error, prev_data>>
    /\ UNCHANGED others

\* lines 126-128: an empty frame ends the loop
FetchEmpty ==
    /\ pc = "fetching"
    /\ in_flight' = in_flight - 1
    /\ slept' = 0
    /\ last_outcome' = "empty"
    /\ fail_streak' = 0
    /\ regular' = (regular /\ RegularPage(since, Limit, timeframe, newest, server_cap) = <<>>)
    /\ pc' = "after_loop"
    /\ UNCHANGED <<inputs, current_ts, all_data, batch_count, since,
                   combined_df, error, prev_data>>
    /\ UNCHANGED others

\* the cursor one millisecond too far (a plausible off-by-one)
NextCursorPast(last_timestamp) == ToMs(last_timestamp) + CursorStep + 1

\* the cursor left on the last row it fetched (a plausible slip)
NextCursorStays(last_timestamp) == ToMs(last_timestamp)

\* line 135: the cursor after a batch whose last row is `last_timestamp`
NextCursor(last_timestamp) == ToMs(last_timestamp) + CursorStep

\* the pacing sleep taken only after a full page (a plausible slip)
HandleBatchPacesFullOnly(df) ==
    /\ all_data' = Append(all_data, df)
    /\ batch_count' = batch_count + 1
    /\ current_ts' = NextCursor(df[Len(df)].timestamp)
    /\ slept' = IF Len(df) = Limit THEN PaceDelay ELSE 0
    /\ pc' = IF current_ts' >= end_ts THEN "after_loop" ELSE "loop"

\* lines 130-146: append, count, advance the cursor, sleep(0.5), end test
HandleBatch(df) ==
    /\ all_data' = Append(all_data, df)
    /\ batch_count' = batch_count + 1
    /\ current_ts' = NextCursor(df[Len(df)].timestamp)
    /\ slept' = PaceDelay
    /\ pc' = IF current_ts' >= end_ts THEN "after_loop" ELSE "loop"

\* line 130: the batch appended last
LastFetchedBatch == all_data[Len(all_data)]

\* line 124 answered by the regular page
FetchRegular ==
    /\ pc = "fetching"
    /\ LET page == RegularPage(since, Limit, timeframe, newest, server_cap)
       IN  /\ page # <<>>
           /\ HandleBatch(fetch_ohlcv(page))
    /\ in_flight' = in_flight - 1
    /\ last_outcome' = "batch"
    /\ fail_streak' = 0
    /\ UNCHANGED <<inputs, since, regular, combined_df, error, prev_data>>
    /\ UNCHANGED others

\* line 124 answered by an irregular page (at most once per call)
FetchIrregular ==
    /\ pc = "fetching"
    /\ regular
    /\ \E page \in IrregularPages(since, timeframe, end_date) :
           HandleBatch(fetch_ohlcv(page))
    /\ in_flight' = in_flight - 1
    /\ last_outcome' = "batch"
    /\ fail_streak' = 0
    /\ regular' = FALSE
    /\ UNCHANGED <<inputs, since, combined_df, error, prev_data>>
    /\ UNCHANGED others

\* the call returning an empty series instead of raising (a plausible slip)
FinishNeverRaises ==
    /\ pc = "after_loop"
    /\ pc' = "returned"
    /\ combined_df' = Merge(all_data, end_date)
    /\ UNCHANGED <<inputs, current_ts, all_data, batch_count, since,
                   in_flight, slept, last_outcome, fail_streak, regular,
                   error, prev_data>>
    /\ UNCHANGED others

\* lines 153-171: NoDataCollected, or the merged series
Finish ==
    /\ pc = "after_loop"
    /\ IF all_data = <<>>
       THEN /\ pc' = "raised"
            /\ error' = "NoDataCollected"
            /\ UNCHANGED combined_df
       ELSE /\ pc' = "returned"
            /\ combined_df' = Merge(all_data, end_date)
            /\ UNCHANGED error
    /\ UNCHANGED <<inputs, current_ts, all_data, batch_count, since,
                   in_flight, slept, last_outcome, fail_streak, regular,
                   prev_data>>
    /\ UNCHANGED others

\* A second call for the same window against the same exchange (the same
\* candles; its page cap may differ), after a first call that the exchange
\* answered regularly throughout.
Again ==
    /\ pc = "returned"
    /\ regular
    /\ prev_data = <<>>
    /\ prev_data' = all_data
    /\ pc' = "loop"
    /\ current_ts' = StartTs(start_date)
    /\ all_data' = <<>>
    /\ batch_count' = 0
    /\ since' = -1
    /\ slept' = 0
    /\ last_outcome' = "none"
    /\ combined_df' = <<>>
    /\ server_cap' \in SERVER_CAPS
    /\ UNCHANGED <<timeframe, start_date, end_date, newest, in_flight,
                   fail_streak, regular, error>>
    /\ UNCHANGED others

Next ==
    \/ LoopTest
    \/ FetchFails
    \/ FetchEmpty
    \/ FetchRegular
    \/ FetchIrregular
    \/ Finish
    \/ Again

all_vars == <<vars, others>>

Spec == Init /\ [][Next]_all_vars

\* ------------------------------------------------- the call under fairness
\* line 124 answered by an irregular page none of whose rows is before `since`
FetchIrregularFromSince ==
    /\ FetchIrregular
    /\ \A i \in 1 .. Len(LastFetchedBatch') :
           ToMs(LastFetchedBatch'[i].timestamp) >= since

LiveNext ==
    \/ LoopTest
    \/ FetchFails
    \/ FetchEmpty
    \/ FetchRegular
    \/ FetchIrregularFromSince
    \/ Finish
    \/ Again

\* lines 121-151 run one after the other, so the loop test and the code after
\* the loop are taken whenever they are next; a request may raise any number
\* of times, but not for ever: it is answered in the end.
Answered == FetchEmpty \/ FetchRegular \/ FetchIrregularFromSince

\* lines 153-171 seen through pc alone: the steps of LiveNext that leave
\* "after_loop" are exactly the steps of Finish, and Finish is enabled exactly
\* when pc = "after_loop", so fairness of FinishStep is fairness of Finish.
FinishStep == pc = "after_loop" /\ pc' \in {"returned", "raised"}

LiveSpec ==
    /\ Init
    /\ [][LiveNext]_all_vars
    /\ WF_all_vars(LoopTest)
    /\ WF_pc(FinishStep)
    /\ SF_all_vars(Answered)

\* ================================================================ numbers
\* pandas computes in IEEE doubles.  The model computes exactly: a value is
\* NaN, an infinity (its sign is not kept: no formula of the model reads it), or
\* the real number  v + s * sqrt(q)  with v and q rationals and s a sign; the
\* square root only comes from rolling(...).std().
Abs(x) == IF x < 0 THEN -x ELSE x
Sign(x) == IF x < 0 THEN -1 ELSE IF x = 0 THEN 0 ELSE 1

RECURSIVE Gcd(_, _)
Gcd(a, b) == IF b = 0 THEN a ELSE Gcd(b, a % b)

\* n/d with the common factor g taken out and the sign in the numerator
Reduced(n, d, g) ==
    IF d < 0 THEN <<(-n) \div g, (-d) \div g>> ELSE <<n \div g, d \div g>>

\* the rational n/d in lowest terms, d > 0
Rat(n, d) == Reduced(n, d, Gcd(Abs(n), Abs(d)))

\* x + y over the least common denominator, g the common factor of the two
SumOver(x, y, g) ==
    Rat(x[1] * (y[2] \div g) + y[1] * (x[2] \div g), (x[2] \div g) * y[2])

\* the four operations, cancelling common factors before they multiply
RAdd(x, y) == SumOver(x, y, Gcd(x[2], y[2]))
RSub(x, y) == RAdd(x, <<-y[1], y[2]>>)
Times(a, b) == <<a[1] * b[1], a[2] * b[2]>>
RMul(x, y) == Times(Rat(x[1], y[2]), Rat(y[1], x[2]))
Inverse(y) == IF y[1] < 0 THEN <<-y[2], -y[1]>> ELSE <<y[2], y[1]>>
RDiv(x, y) == RMul(x, Inverse(y))
RSign(x) == Sign(x[1])
Zero == <<0, 1>>

NaN == [k |-> "nan", v |-> Zero, s |-> 0, q |-> Zero]
Inf == [k |-> "inf", v |-> Zero, s |-> 0, q |-> Zero]
Real(r) == [k |-> "num", v |-> r, s |-> 0, q |-> Zero]
Num(n) == Real(<<n, 1>>)

IsNaN(x) == x.k = "nan"
IsNum(x) == x.k = "num"
IsZero(x) == x.k = "num" /\ x.v = Zero /\ x.s = 0

\* x + y; of two finite operands at most one carries a square root
FAdd(x, y) ==
    CASE IsNaN(x) \/ IsNaN(y) -> NaN
      [] ~(IsNaN(x) \/ IsNaN(y)) /\ (x.k = "inf" \/ y.k = "inf") -> Inf
      [] IsNum(x) /\ IsNum(y) /\ (x.s = 0 \/ y.s = 0) ->
            [(IF y.s = 0 THEN x ELSE y) EXCEPT !.v = RAdd(x.v, y.v)]

FNeg(x) ==
    IF IsNum(x) THEN [x EXCEPT !.v = <<-x.v[1], x.v[2]>>, !.s = -x.s] ELSE x

FSub(x, y) == FAdd(x, FNeg(y))

\* v + s * sqrt(q), the square root dropped when q is 0
Surd(v, s, q) ==
    [k |-> "num", v |-> v, s |-> IF q = Zero THEN 0 ELSE s, q |-> q]

\* x * y for a rational y
FMul(x, y) ==
    CASE IsNaN(x) \/ IsNaN(y) -> NaN
      [] IsNum(x) /\ IsNum(y) /\ y.s = 0 ->
            Surd(RMul(x.v, y.v), x.s * RSign(y.v),
                 RMul(x.q, <<y.v[1] * y.v[1], y.v[2] * y.v[2]>>))

\* x / y for rationals, NaN and the infinities: 0/0 is NaN, a/0 is infinite
FDiv(x, y) ==
    CASE IsNaN(x) \/ IsNaN(y) -> NaN
      [] x.k = "inf" /\ y.k = "inf" -> NaN
      [] x.k = "inf" /\ IsNum(y) -> Inf
      [] IsNum(x) /\ y.k = "inf" -> Num(0)
      [] IsNum(x) /\ IsNum(y) /\ IsZero(y) -> IF IsZero(x) THEN NaN ELSE Inf
      [] IsNum(x) /\ IsNum(y) /\ ~IsZero(y) /\ x.s = 0 /\ y.s = 0 ->
            Real(RDiv(x.v, y.v))

\* sqrt(x) of a rational x >= 0
FSqrt(x) ==
    IF IsNum(x) /\ x.s = 0 /\ x.v[1] >= 0 THEN Surd(Zero, 1, x.v) ELSE NaN

\* the sign of  c + s * sqrt(q)  with q # 0, given the sign of c * c - q
SurdSign(c, s, cmp) ==
    CASE s > 0 -> IF c[1] >= 0 THEN 1 ELSE -cmp
      [] s < 0 -> IF c[1] <= 0 THEN -1 ELSE cmp

\* the sign of a finite value
ValueSign(d) ==
    IF d.s = 0
    THEN Sign(d.v[1])
    ELSE SurdSign(d.v, d.s,
                  RSign(RSub(<<d.v[1] * d.v[1], d.v[2] * d.v[2]>>, d.q)))

\* x < y as the doubles compare: false when either is NaN
FLess(x, y) == IsNum(x) /\ IsNum(y) /\ ValueSign(FSub(x, y)) < 0

FLeq(x, y) == IsNum(x) /\ IsNum(y) /\ ~FLess(y, x)

\* =================================================== TechnicalIndicators
\* a smoothing that starts from zero instead of the first value (a slip)
EwmFromZero(data, period) ==
    LET a == Real(Rat(2, period + 1))
        b == Real(Rat(period - 1, period + 1))
        Y[i \in 1 .. Len(data)] ==
            IF i = 1 THEN FMul(data[1], a)
            ELSE FAdd(FMul(Y[i - 1], b), FMul(data[i], a))
    IN  [i \in 1 .. Len(data) |-> Y[i]]

\* data.ewm(span=period, adjust=False).mean() of a series without NaN:
\* y[0] = x[0],  y[i] = (1 - a) * y[i-1] + a * x[i],  a = 2 / (period + 1)
Ewm(data, period) ==
    LET a == Real(Rat(2, period + 1))
        b == Real(Rat(period - 1, period + 1))
        Y[i \in 1 .. Len(data)] ==
            IF i = 1 THEN data[1]
            ELSE FAdd(FMul(Y[i - 1], b), FMul(data[i], a))
    IN  [i \in 1 .. Len(data) |-> Y[i]]

\* lines 43: calculate_ema
calculate_ema(data, period) == Ewm(data, period)

\* element-wise a - b of two aligned series
SeriesSub(x, y) == [i \in 1 .. Len(x) |-> FSub(x[i], y[i])]

\* lines 85-87: the histogram, and the three series returned
MacdTriple(macd_line, signal_line) ==
    <<macd_line, signal_line, SeriesSub(macd_line, signal_line)>>

\* line 82: the signal line of a MACD line
MacdWithSignal(macd_line, signal_period) ==
    MacdTriple(macd_line, calculate_ema(macd_line, signal_period))

\* lines 77-87: calculate_macd, as <<macd_line, signal_line, macd_histogram>>
calculate_macd(data, fast_period, slow_period, signal_period) ==
    MacdWithSignal(SeriesSub(calculate_ema(data, fast_period),
                             calculate_ema(data, slow_period)),
                   signal_period)

\* data.diff(): NaN at the first row
Diff(data) ==
    [i \in 1 .. Len(data) |-> IF i = 1 THEN NaN ELSE FSub(data[i], data[i - 1])]

\* delta.where(delta > 0, 0): the value where the test holds, else 0
Gains(delta) ==
    [i \in 1 .. Len(delta) |->
        IF FLess(Num(0), delta[i]) THEN delta[i] ELSE Num(0)]

\* -delta.where(delta < 0, 0)
Losses(delta) ==
    [i \in 1 .. Len(delta) |->
        IF FLess(delta[i], Num(0)) THEN FNeg(delta[i]) ELSE Num(0)]

\* lines 117-118: the smoothed gains and losses
AvgGains(data, period) == Ewm(Gains(Diff(data)), period)
AvgLosses(data, period) == Ewm(Losses(Diff(data)), period)

\* an RSI that forgets the 1 of 100 / (1 + rs) (a slip)
calculate_rsi_without_one(data, period) ==
    LET avg_gains == Ewm(Gains(Diff(data)), period)
        avg_losses == Ewm(Losses(Diff(data)), period)
    IN  [i \in 1 .. Len(data) |->
            LET rs == FDiv(avg_gains[i], avg_losses[i])
            IN  FSub(Num(100), FDiv(Num(100), rs))]

\* lines 110-125: calculate_rsi
calculate_rsi(data, period) ==
    LET avg_gains == AvgGains(data, period)
        avg_losses == AvgLosses(data, period)
    IN  [i \in 1 .. Len(data) |->
            LET rs == FDiv(avg_gains[i], avg_losses[i])
            IN  FSub(Num(100), FDiv(Num(100), FAdd(Num(1), rs)))]

RECURSIVE SumTo(_, _, _)
\* f[lo] + ... + f[hi]
SumTo(f, lo, hi) == IF lo > hi THEN 0 ELSE f[hi] + SumTo(f, lo, hi - 1)


\* a mean that is defined as soon as one row is there (min_periods=1, a slip)
RollingMeanFromFirstRow(data, period) ==
    [i \in 1 .. Len(data) |->
        LET n == IF i < period THEN i ELSE period
            w == [j \in 1 .. n |-> data[i - n + j].v[1]]
        IN  Real(Rat(SumTo(w, 1, n), n))]

\* data.rolling(window=period).mean() of integer-valued rows
RollingMean(data, period) ==
    [i \in 1 .. Len(data) |->
        IF i < period THEN NaN
        ELSE LET w == [j \in 1 .. period |-> data[i - period + j].v[1]]
             IN  Real(Rat(SumTo(w, 1, period), period))]

\* data.rolling(window=period).std(): the sample standard deviation (ddof=1),
\* NaN while the window is not full and when it holds a single row
RollingStd(data, period) ==
    [i \in 1 .. Len(data) |->
        IF i < period \/ period < 2 THEN NaN
        ELSE LET w == [j \in 1 .. period |-> data[i - period + j].v[1]]
                 sq == [j \in 1 .. period |-> w[j] * w[j]]
                 sum == SumTo(w, 1, period)
                 var == Rat(period * SumTo(sq, 1, period) - sum * sum,
                            period * (period - 1))
             IN  FSqrt(Real(var))]

\* lines 167-168 with the two signs exchanged (a slip)
BandsSwapped(middle_band, width) ==
    <<[i \in 1 .. Len(middle_band) |-> FSub(middle_band[i], width[i])],
      middle_band,
      [i \in 1 .. Len(middle_band) |-> FAdd(middle_band[i], width[i])]>>

\* lines 167-168: the bands a width above and below the middle band
Bands(middle_band, width) ==
    <<[i \in 1 .. Len(middle_band) |-> FAdd(middle_band[i], width[i])],
      middle_band,
      [i \in 1 .. Len(middle_band) |-> FSub(middle_band[i], width[i])]>>

\* std * std_dev
Scaled(std, std_dev) == [i \in 1 .. Len(std) |-> FMul(std[i], Num(std_dev))]

\* lines 160-168: calculate_bollinger_bands, as <<upper, middle, lower>>
calculate_bollinger_bands(data, period, std_dev) ==
    Bands(RollingMean(data, period), Scaled(RollingStd(data, period), std_dev))

\* ============================================================ data frames
\* A DataFrame: its column labels in order, its number of rows, and one series
\* of that many values per column.  A null cell is NaN.
Range(f) == {f[i] : i \in DOMAIN f}

HasColumn(df, c) == c \in Range(df.columns)

\* df.empty: no rows or no columns
Empty(df) == df.n = 0 \/ Len(df.columns) = 0

\* df[c] = series[c] for the columns c of a list, one after the other: an
\* existing column is replaced in place, a new one is appended after the last
SetColumns(df, names, series) ==
    [columns |-> df.columns \o SelectSeq(names, LAMBDA c : ~HasColumn(df, c)),
     n |-> df.n,
     col |-> [k \in Range(df.columns) \cup Range(names) |->
                 IF k \in Range(names) THEN series[k] ELSE df.col[k]]]

\* ------------------------------------ TechnicalIndicators.add_all_indicators
\* a frame the function works on that is the caller's own object (a slip: the
\* copy left out)
DfShared(df) == [frame |-> df, shared |-> TRUE]

\* line 189: df = df.copy(), a frame of its own
DfCopy(df) == [frame |-> df, shared |-> FALSE]

\* lines 192-210: the columns assigned, in the order of the assignments
assigned_columns ==
    <<"ema_12", "ema_26", "ema_50", "ema_200",
      "macd", "macd_signal", "macd_histogram",
      "rsi",
      "bb_upper", "bb_middle", "bb_lower">>

\* lines 192-210: the series assigned to each column, the EMA and the RSI
\* computed with the periods written there
AssignedSeries(close, macd, bands) ==
    [c \in Range(assigned_columns) |->
        CASE c = "ema_12" -> calculate_ema(close, 12)
          [] c = "ema_26" -> calculate_ema(close, 26)
          [] c = "ema_50" -> calculate_ema(close, 50)
          [] c = "ema_200" -> calculate_ema(close, 200)
          [] c = "macd" -> macd[1]
          [] c = "macd_signal" -> macd[2]
          [] c = "macd_histogram" -> macd[3]
          [] c = "rsi" -> calculate_rsi(close, 14)
          [] c = "bb_upper" -> bands[1]
          [] c = "bb_middle" -> bands[2]
          [] c = "bb_lower" -> bands[3]]

\* line 212: the frame returned, and the caller's frame once it is returned
Returned(df, local, out) ==
    [value |-> out, caller |-> IF local.shared THEN out ELSE df]

\* lines 189-214: add_all_indicators; MACD and the bands take the default
\* periods of lines 48-50 and 130-131
add_all_indicators(df) ==
    Returned(df, DfCopy(df),
             SetColumns(df, assigned_columns,
                        AssignedSeries(df.col["close"],
                                       calculate_macd(df.col["close"], 12, 26, 9),
                                       calculate_bollinger_bands(df.col["close"],
                                                                 20, 2))))

\* ----------------------------------- TechnicalIndicators.validate_indicators
\* lines 233-238
required_indicators ==
    <<"ema_12", "ema_26", "ema_50", "ema_200",
      "macd", "macd_signal", "macd_histogram",
      "rsi",
      "bb_upper", "bb_middle", "bb_lower">>

\* a check that looks for the EMA columns only (a slip)
MissingEma(df) ==
    SelectSeq(SubSeq(required_indicators, 1, 4), LAMBDA ind : ~HasColumn(df, ind))

\* line 241: the required columns the frame does not have
Missing(df) ==
    SelectSeq(required_indicators, LAMBDA ind : ~HasColumn(df, ind))

\* lines 247-250: some RSI value that is not NaN is below 0 or above 100
RsiOutOfRange(df) ==
    \E i \in 1 .. df.n :
        \/ FLess(df.col["rsi"][i], Num(0))
        \/ FLess(Num(100), df.col["rsi"][i])

\* lines 253-257: the rows with three bands where upper < middle or
\* middle < lower
invalid_bb(df) ==
    {i \in 1 .. df.n :
        /\ \A c \in {"bb_upper", "bb_middle", "bb_lower"} : ~IsNaN(df.col[c][i])
        /\ \/ FLess(df.col["bb_upper"][i], df.col["bb_middle"][i])
           \/ FLess(df.col["bb_middle"][i], df.col["bb_lower"][i])}

\* line 262: the number of NaN of a column
nan_count(df, c) == Cardinality({i \in 1 .. df.n : IsNaN(df.col[c][i])})

\* lines 233-272: validate_indicators, as the value returned and the lines
\* printed
validate_indicators(df) ==
    LET rsi_warning ==
            IF RsiOutOfRange(df) THEN <<[msg |-> "rsi", n |-> 0]>> ELSE <<>>
        bb_warning ==
            IF invalid_bb(df) # {}
            THEN <<[msg |-> "bollinger", n |-> Cardinality(invalid_bb(df))]>>
            ELSE <<>>
        with_nan == SelectSeq(required_indicators,
                              LAMBDA c : nan_count(df, c) > 0)
        nan_lines == [i \in 1 .. Len(with_nan) |->
                        [msg |-> "nan", n |-> nan_count(df, with_nan[i])]]
    IN  IF Missing(df) # <<>>
        THEN [value |-> FALSE, printed |-> <<[msg |-> "missing", n |-> 0]>>]
        ELSE [value |-> TRUE,
              printed |-> rsi_warning \o bb_warning \o nan_lines
                          \o <<[msg |-> "ok", n |-> 0]>>]

\* ---------------------------------------------- DataCollector.validate_data
\* line 197
required_columns == <<"timestamp", "open", "high", "low", "close", "volume">>

\* line 208
price_columns == <<"open", "high", "low", "close">>

\* a test that lets a price of exactly 0 through (a slip: < for <=)
PricesNegativeOnly(df) ==
    \E c \in Range(price_columns) :
        \E i \in 1 .. df.n : FLess(df.col[c][i], Num(0))

\* lines 209-210: (df[col] <= 0).any() for some price column
PricesNotPositive(df) ==
    \E c \in Range(price_columns) :
        \E i \in 1 .. df.n : FLeq(df.col[c][i], Num(0))

\* line 215: the rows whose high is below the low, the open or the close
invalid_high(df) ==
    {i \in 1 .. df.n :
        \/ FLess(df.col["high"][i], df.col["low"][i])
        \/ FLess(df.col["high"][i], df.col["open"][i])
        \/ FLess(df.col["high"][i], df.col["close"][i])}

\* line 216: the rows whose low is above the open or the close
invalid_low(df) ==
    {i \in 1 .. df.n :
        \/ FLess(df.col["open"][i], df.col["low"][i])
        \/ FLess(df.col["close"][i], df.col["low"][i])}

\* line 219: the number the warning reports
total_invalid(df) == Cardinality(invalid_high(df)) + Cardinality(invalid_low(df))

\* line 223: the rows whose timestamp an earlier row already has
duplicates(df) ==
    Cardinality({i \in 1 .. df.n :
        \E j \in 1 .. i - 1 : df.col["timestamp"][j] = df.col["timestamp"][i]})

\* lines 191-228: validate_data, as the value returned and the lines printed
validate_data(df) ==
    LET nulls == \E c \in Range(required_columns) :
                    \E i \in 1 .. df.n : IsNaN(df.col[c][i])
        null_warning == IF nulls THEN <<[msg |-> "null", n |-> 0]>> ELSE <<>>
        ohlc_warning ==
            IF invalid_high(df) # {} \/ invalid_low(df) # {}
            THEN <<[msg |-> "ohlc", n |-> total_invalid(df)]>> ELSE <<>>
        duplicate_warning ==
            IF duplicates(df) > 0
            THEN <<[msg |-> "duplicates", n |-> duplicates(df)]>> ELSE <<>>
    IN  IF Empty(df)
        THEN [value |-> FALSE, printed |-> <<[msg |-> "empty", n |-> 0]>>]
        ELSE IF ~(\A c \in Range(required_columns) : HasColumn(df, c))
        THEN [value |-> FALSE, printed |-> <<[msg |-> "missing", n |-> 0]>>]
        ELSE IF PricesNotPositive(df)
        THEN [value |-> FALSE,
              printed |-> null_warning \o <<[msg |-> "price", n |-> 0]>>]
        ELSE [value |-> TRUE,
              printed |-> null_warning \o ohlc_warning \o duplicate_warning
                          \o <<[msg |-> "ok", n |-> 0]>>]

\* ------------------------------------------------- the frames handed over
MaxRows == 2

\* the prices of a well-formed candle, and the cells that are not prices
PRICES == {Num(1), Num(2)}
NOT_PRICES == {NaN, Num(0), Num(-1)}

\* the candles: every combination of two prices, the candles with one cell
\* that is null, zero or negative, and a candle with a null volume
CANDLES ==
    LET base == [open |-> Num(1), high |-> Num(1), low |-> Num(1),
                 close |-> Num(1), volume |-> Num(1)]
    IN  [open : PRICES, high : PRICES, low : PRICES, close : PRICES,
         volume : {Num(1)}]
        \cup {[base EXCEPT ![c] = x] :
                c \in Range(price_columns), x \in NOT_PRICES}
        \cup {[base EXCEPT !.volume = NaN]}

CANDLE_ROWS == UNION {[1 .. n -> CANDLES] : n \in 0 .. MaxRows}

\* the six columns, or the six less one
COLUMN_SETS ==
    {required_columns}
    \cup {SelectSeq(required_columns, LAMBDA c : c # gone) :
            gone \in Range(required_columns)}

\* the frame of the given candles: its timestamps all differ, or all repeat
\* the first one
CandleFrame(columns, rows, repeated) ==
    [columns |-> columns,
     n |-> Len(rows),
     col |-> [c \in Range(columns) |->
                [i \in 1 .. Len(rows) |->
                    IF c = "timestamp"
                    THEN (IF repeated THEN Num(1) ELSE Num(i))
                    ELSE rows[i][c]]]]

\* ------------------------------------------------- the series handed over
MaxLen == 5

\* closing prices around 100
CLOSES == {Num(99), Num(100), Num(101), Num(102)}

CLOSE_SERIES == UNION {[1 .. n -> CLOSES] : n \in 0 .. MaxLen}

\* short periods, and the default period of the RSI (line 90)
PERIODS == {1, 2, 3, 14}

\* band widths in standard deviations, the default 2 (line 131) among them
STD_DEVS == {0, 1, 2}

\* ------------------------------------------- the frames with indicators
\* candle series without nulls, as add_all_indicators takes them
PRICE_ROWS ==
    UNION {[1 .. n -> [open : PRICES, high : PRICES, low : PRICES,
                       close : PRICES, volume : {Num(1)}]] : n \in 0 .. MaxRows}

\* RSI cells: undefined, below the range, inside it, above it
RSI_VALUES == {NaN, Num(-1), Num(50), Num(101)}

\* upper, middle and lower cells: in order, inverted, partly undefined
BANDS == {<<Num(3), Num(2), Num(1)>>, <<Num(1), Num(2), Num(3)>>,
          <<NaN, Num(2), NaN>>}

\* df.drop(columns=[c])
DropColumn(df, c) ==
    [columns |-> SelectSeq(df.columns, LAMBDA k : k # c),
     n |-> df.n,
     col |-> [k \in Range(df.columns) \ {c} |-> df.col[k]]]

\* a frame of n candles with its indicator columns, the RSI and the bands
\* overwritten with the given cells and one column possibly dropped
IndicatorFrame(n, rsi, bands, gone) ==
    LET candle == [open |-> Num(1), high |-> Num(1), low |-> Num(1),
                   close |-> Num(1), volume |-> Num(1)]
        base == add_all_indicators(
                    CandleFrame(required_columns, [i \in 1 .. n |-> candle],
                                FALSE)).value
        d == SetColumns(base, <<"rsi", "bb_upper", "bb_middle", "bb_lower">>,
                        [c \in {"rsi", "bb_upper", "bb_middle", "bb_lower"} |->
                            CASE c = "rsi" -> rsi
                              [] c = "bb_upper" -> [i \in 1 .. n |-> bands[i][1]]
                              [] c = "bb_middle" -> [i \in 1 .. n |-> bands[i][2]]
                              [] c = "bb_lower" -> [i \in 1 .. n |-> bands[i][3]]])
    IN  IF gone = "none" THEN d ELSE DropColumn(d, gone)

\* ------------------------------------------------------ the library calls
\* validate_data applied to a frame
CallValidateData ==
    /\ LibIdle
    /\ \E columns \in COLUMN_SETS, rows \in CANDLE_ROWS, repeated \in BOOLEAN :
          LET df == CandleFrame(columns, rows, repeated)
          IN  /\ call' = [fn |-> "validate_data", df |-> df]
              /\ ret' = [fn |-> "validate_data", value |-> validate_data(df)]
    /\ UNCHANGED <<vars, pipe_vars>>

\* calculate_ema applied to a series of closes
CallCalculateEma ==
    /\ LibIdle
    /\ \E data \in CLOSE_SERIES, period \in PERIODS :
          /\ call' = [fn |-> "calculate_ema", data |-> data, period |-> period]
          /\ ret' = [fn |-> "calculate_ema",
                     value |-> calculate_ema(data, period)]
    /\ UNCHANGED <<vars, pipe_vars>>

\* calculate_rsi applied to a series of closes
CallCalculateRsi ==
    /\ LibIdle
    /\ \E data \in CLOSE_SERIES, period \in PERIODS :
          /\ call' = [fn |-> "calculate_rsi", data |-> data, period |-> period]
          /\ ret' = [fn |-> "calculate_rsi",
                     value |-> calculate_rsi(data, period)]
    /\ UNCHANGED <<vars, pipe_vars>>

\* calculate_bollinger_bands applied to a series of closes
CallCalculateBollingerBands ==
    /\ LibIdle
    /\ \E data \in CLOSE_SERIES, period \in PERIODS, std_dev \in STD_DEVS :
          /\ call' = [fn |-> "calculate_bollinger_bands", data |-> data,
                      period |-> period, std_dev |-> std_dev]
          /\ ret' = [fn |-> "calculate_bollinger_bands",
                     value |-> calculate_bollinger_bands(data, period, std_dev)]
    /\ UNCHANGED <<vars, pipe_vars>>

\* add_all_indicators applied to a candle series
CallAddAllIndicators ==
    /\ LibIdle
    /\ \E rows \in PRICE_ROWS, repeated \in BOOLEAN :
          LET df == CandleFrame(required_columns, rows, repeated)
              r == add_all_indicators(df)
          IN  /\ call' = [fn |-> "add_all_indicators", df |-> df]
              /\ ret' = [fn |-> "add_all_indicators", value |-> r.value,
                         caller |-> r.caller]
    /\ UNCHANGED <<vars, pipe_vars>>

\* validate_indicators applied to a frame
CallValidateIndicators ==
    /\ LibIdle
    /\ \E n \in 0 .. MaxRows, gone \in {"none"} \cup Range(required_indicators) :
          \E rsi \in [1 .. n -> RSI_VALUES], bands \in [1 .. n -> BANDS] :
              LET df == IndicatorFrame(n, rsi, bands, gone)
              IN  /\ call' = [fn |-> "validate_indicators", df |-> df]
                  /\ ret' = [fn |-> "validate_indicators",
                             value |-> validate_indicators(df)]
    /\ UNCHANGED <<vars, pipe_vars>>

\* the caller takes the result; the next call can be made
Return ==
    /\ ~LibIdle
    /\ call' = [fn |-> "none"]
    /\ ret' = [fn |-> "none"]
    /\ UNCHANGED <<vars, pipe_vars>>

\* the backfill is not running while the library functions are exercised
LibInit ==
    /\ Init
    /\ timeframe = "1m"
    /\ start_date = 0
    /\ end_date = 0
    /\ newest = Minute
    /\ server_cap = 1

LibNext ==
    \/ CallValidateData
    \/ CallCalculateEma
    \/ CallCalculateRsi
    \/ CallCalculateBollingerBands
    \/ CallAddAllIndicators
    \/ CallValidateIndicators
    \/ Return

LibSpec == LibInit /\ [][LibNext]_all_vars

\* ===================================================== CryptoDataPipeline
MaxCalls == 2

\* the candles a backfill hands to the pipeline: two well-formed ones and one
\* whose close is 0
PIPE_CANDLES ==
    {[open |-> Num(1), high |-> Num(2), low |-> Num(1), close |-> Num(2),
      volume |-> Num(1)],
     [open |-> Num(2), high |-> Num(2), low |-> Num(1), close |-> Num(1),
      volume |-> Num(1)],
     [open |-> Num(1), high |-> Num(1), low |-> Num(0), close |-> Num(0),
      volume |-> Num(1)]}

\* the series fetch_all_historical_data can return: six columns, distinct
\* timestamps, possibly no rows
FETCHED ==
    {CandleFrame(required_columns, rows, FALSE) :
        rows \in UNION {[1 .. n -> PIPE_CANDLES] : n \in 0 .. MaxRows}}

\* a stage of run and how it ended
Stage(name, ok) == [stage |-> name, ok |-> ok]

\* no call is in progress on the pipeline
Callable == run_pc \in {"idle", "returned", "raised"} /\ calls < MaxCalls

\* line 34: run is called
Run ==
    /\ Callable
    /\ calls' = calls + 1
    /\ run_pc' = "step1"
    /\ stages' = <<>>
    /\ fetched' = Nothing
    /\ UNCHANGED <<self_data, written>>
    /\ UNCHANGED <<vars, lib_vars>>

\* lines 58-62: the backfill returns a series, kept in self.data
Step1Collect ==
    /\ run_pc = "step1"
    /\ \E df \in FETCHED :
          /\ self_data' = Held(df)
          /\ fetched' = Held(df)
    /\ stages' = Append(stages, Stage("fetch", TRUE))
    /\ run_pc' = "step2"
    /\ UNCHANGED <<written, calls>>
    /\ UNCHANGED <<vars, lib_vars>>

\* lines 63-65: the backfill raises, and so does run
Step1CollectFails ==
    /\ run_pc = "step1"
    /\ stages' = Append(stages, Stage("fetch", FALSE))
    /\ run_pc' = "raised"
    /\ UNCHANGED <<self_data, fetched, written, calls>>
    /\ UNCHANGED <<vars, lib_vars>>

\* what follows a stage: the next step, or the raise that ends the run
After(ok, next_pc) == IF ok THEN next_pc ELSE "raised"

\* a candle validation whose verdict is not looked at (a slip)
Step2ValidateIgnored ==
    /\ run_pc = "step2"
    /\ stages' = Append(stages, Stage("validate_data", TRUE))
    /\ run_pc' = "step3"
    /\ UNCHANGED <<self_data, fetched, written, calls>>
    /\ UNCHANGED <<vars, lib_vars>>

\* lines 69-70: the candles are validated; a false verdict raises
Step2Validate ==
    /\ run_pc = "step2"
    /\ \E ok \in {validate_data(self_data.df).value} :
          /\ stages' = Append(stages, Stage("validate_data", ok))
          /\ run_pc' = After(ok, "step3")
    /\ UNCHANGED <<self_data, fetched, written, calls>>
    /\ UNCHANGED <<vars, lib_vars>>

\* lines 74-78: self.data becomes the frame with the indicators
Step3Calculate ==
    /\ run_pc = "step3"
    /\ self_data' = Held(add_all_indicators(self_data.df).value)
    /\ stages' = Append(stages, Stage("add_all_indicators", TRUE))
    /\ run_pc' = "step3_validate"
    /\ UNCHANGED <<fetched, written, calls>>
    /\ UNCHANGED <<vars, lib_vars>>

\* lines 81-82: the indicators are validated; a false verdict raises
Step3Validate ==
    /\ run_pc = "step3_validate"
    /\ \E ok \in {validate_indicators(self_data.df).value} :
          /\ stages' = Append(stages, Stage("validate_indicators", ok))
          /\ run_pc' = After(ok, "step4")
    /\ UNCHANGED <<self_data, fetched, written, calls>>
    /\ UNCHANGED <<vars, lib_vars>>

\* lines 91-104: save_to_csv writes self.data, the summary is shown, run
\* returns
Step4Save ==
    /\ run_pc = "step4"
    /\ written' = self_data
    /\ stages' = Append(stages, Stage("save_to_csv", TRUE))
    /\ run_pc' = "returned"
    /\ UNCHANGED <<self_data, fetched, calls>>
    /\ UNCHANGED <<vars, lib_vars>>

\* lines 92-95: the file cannot be written (os.makedirs or to_csv raises), and
\* so does run
Step4SaveFails ==
    /\ run_pc = "step4"
    /\ stages' = Append(stages, Stage("save_to_csv", FALSE))
    /\ run_pc' = "raised"
    /\ UNCHANGED <<self_data, fetched, written, calls>>
    /\ UNCHANGED <<vars, lib_vars>>

\* lines 106-122: save_to_csv called by the user: raises when nothing is held,
\* else writes what is held
SaveToCsv ==
    /\ Callable
    /\ calls' = calls + 1
    /\ written' = IF self_data = Nothing THEN written ELSE self_data
    /\ UNCHANGED <<self_data, run_pc, stages, fetched>>
    /\ UNCHANGED <<vars, lib_vars>>

PipeNext ==
    \/ Run
    \/ Step1Collect
    \/ Step1CollectFails
    \/ Step2Validate
    \/ Step3Calculate
    \/ Step3Validate
    \/ Step4Save
    \/ Step4SaveFails
    \/ SaveToCsv

PipeSpec == LibInit /\ [][PipeNext]_all_vars

\* ------------------------------------------------------------------ claims
Ended == pc \in {"returned", "raised"}

\* the last row of the batch appended last
LastFetched == LET b == all_data[Len(all_data)] IN b[Len(b)]

\* C1: every returned series has strictly increasing timestamps (hence no two
\* rows share a timestamp), whatever overlap or order the fetched batches had.
C1_StrictlyIncreasing ==
    pc = "returned" =>
        \A i \in 1 .. Len(combined_df) - 1 :
            DtLess(combined_df[i].timestamp, combined_df[i + 1].timestamp)

\* a batch ending at t followed by a batch starting at t, and t is returned
C1_Witness ==
    /\ pc = "returned"
    /\ Len(combined_df) >= 2
    /\ \E k \in 1 .. Len(all_data) - 1 :
          LET a == all_data[k]
              b == all_data[k + 1]
          IN  /\ a[Len(a)].timestamp = b[1].timestamp
              /\ \E i \in 1 .. Len(combined_df) :
                    combined_df[i].timestamp = b[1].timestamp

\* the last candle slot of the timeframe's grid inside the window
LastSlot ==
    start_ts + ((end_ts - start_ts) \div Interval(timeframe)) * Interval(timeframe)

\* the exchange holds a candle at every slot of the window and has answered
\* every request of the call with the regular page
GapFree == regular /\ start_ts < end_ts /\ newest >= LastSlot

C3_KeepsRowsUpToEndTs ==
    pc = "returned" =>
        combined_df =
            SelectSeq(SortValues(DropDuplicates(Concat(all_data))),
                      LAMBDA r : ToMs(r.timestamp) <= end_ts)

\* C4: a failing fetch leaves current_ts, all_data and batch_count as they were,
\* sleeps the backoff delay, and the request that follows carries the same since.
C4_FailureKeepsCursor ==
    /\ [][(pc = "fetching" /\ last_outcome' = "fail" /\ pc' # "fetching") =>
             /\ current_ts' = current_ts
             /\ all_data' = all_data
             /\ batch_count' = batch_count
             /\ slept' = BackoffDelay
             /\ pc' = "loop"]_vars
    /\ [][(last_outcome = "fail" /\ pc # "fetching" /\ pc' = "fetching") =>
             since' = since]_vars

\* a retry in flight after a failure, in the middle of a backfill
C4_Witness ==
    /\ pc = "fetching"
    /\ last_outcome = "fail"
    /\ batch_count >= 1
    /\ since = current_ts

\* C5: a failure never ends the call.  A call that needs a request has not
\* ended while every answer so far was a failure, however long the streak;
\* after a failure the loop test asks again; and the only error is
\* NoDataCollected.
C5_FailureNeverSurfaces ==
    /\ error \in {"none", "NoDataCollected"}
    /\ (pc = "raised") = (error = "NoDataCollected")
    /\ (fail_streak > 0 \/ last_outcome = "fail") =>
          /\ pc \in {"loop", "fetching"}
          /\ current_ts < end_ts
    /\ (start_ts < end_ts /\ batch_count = 0 /\ last_outcome \in {"none", "fail"}) =>
          pc \in {"loop", "fetching"}

\* the longest streak the model counts, and the call still asking
C5_Witness ==
    /\ fail_streak = MaxStreak
    /\ last_outcome = "fail"
    /\ pc = "fetching"
    /\ batch_count = 0

\* C6: an empty batch ends the loop at once: no request follows it, and with a
\* batch accumulated before it the call returns the merge of the batches
\* without error.
C6_EmptyEndsLoop ==
    last_outcome = "empty" =>
        /\ pc \in {"after_loop", "returned", "raised"}
        /\ in_flight = 0
        /\ (all_data # <<>>) => (pc # "raised" /\ error = "none")
        /\ (pc = "returned") => (combined_df = Merge(all_data, end_date))

\* returned after an empty batch that followed a non-empty one
C6_Witness ==
    /\ last_outcome = "empty"
    /\ pc = "returned"
    /\ batch_count >= 1
    /\ combined_df # <<>>

\* C7: a loop that exits with an empty buffer ends in NoDataCollected and
\* returns no series.
C7_NoDataCollected ==
    /\ [](Ended /\ all_data = <<>> =>
             pc = "raised" /\ error = "NoDataCollected" /\ combined_df = <<>>)
    /\ [][(pc = "after_loop" /\ all_data = <<>>) =>
             (pc' = "raised" /\ error' = "NoDataCollected")]_vars

\* start_ts >= end_ts: raised without a single request
C7_Witness ==
    /\ pc = "raised"
    /\ start_ts >= end_ts
    /\ since = -1
    /\ last_outcome = "none"

\* the first successful fetch was empty: raised as well
C7_WitnessFirstEmpty ==
    /\ pc = "raised"
    /\ last_outcome = "empty"
    /\ start_ts < end_ts

\* C8 (as claimed): after a non-empty batch the cursor is the timestamp of the
\* batch's last row plus one interval of the configured timeframe.
C8_CursorPlusOneInterval ==
    (last_outcome = "batch" /\ all_data # <<>>) =>
        current_ts = ToMs(LastFetched.timestamp) + Interval(timeframe)

\* C9: at most one request is in flight, and a request that follows another
\* was preceded by the pacing delay after a batch (of any size) and by the
\* longer backoff delay after a failure.
C9_SequentialAndPaced ==
    /\ in_flight \in {0, 1}
    /\ (pc = "fetching") = (in_flight = 1)
    /\ PaceDelay < BackoffDelay
    /\ (pc = "fetching" /\ last_outcome = "batch") => slept = PaceDelay
    /\ (pc = "fetching" /\ last_outcome = "fail") => slept = BackoffDelay
    /\ (pc = "fetching") => last_outcome \in {"none", "batch", "fail"}

\* a paced request after batches of different sizes
C9_Witness ==
    /\ pc = "fetching"
    /\ last_outcome = "batch"
    /\ slept = PaceDelay
    /\ Len(all_data) >= 2
    /\ Len(all_data[Len(all_data)]) < Len(all_data[1])

\* C10: the merge of the batches of two backfills of one window, the exchange
\* serving the same candles both times, is the merge of one backfill: the same
\* timestamps with the same contents.
C10_IdempotentDedup ==
    (pc = "returned" /\ regular /\ prev_data # <<>>) =>
        /\ Merge(prev_data \o all_data, end_date) = Merge(all_data, end_date)
        /\ Merge(prev_data \o all_data, end_date) = Merge(prev_data, end_date)
        /\ Merge(prev_data \o all_data, end_date) = combined_df

\* two backfills that were paged differently and returned several rows
C10_Witness ==
    /\ pc = "returned"
    /\ regular
    /\ prev_data # <<>>
    /\ prev_data # all_data
    /\ Len(combined_df) >= 2

\* the messages a validator printed
Printed(r) == {r.printed[i].msg : i \in DOMAIN r.printed}

\* a cell that holds a number that is zero or negative
NotPositive(x) == x.k = "num" /\ x.v[1] <= 0

\* C11: validate_data returns false exactly when the frame is empty, or one of
\* timestamp, open, high, low, close, volume is absent, or some open, high, low
\* or close is zero or negative; nulls, OHLC violations and repeated timestamps
\* are warned about and do not change the verdict.
C11_ValidateDataVerdict ==
    (ret.fn = "validate_data") =>
        LET df == call.df
            fields == {"timestamp", "open", "high", "low", "close", "volume"}
        IN  (ret.value.value = FALSE) <=>
                \/ df.n = 0
                \/ \E c \in fields : ~HasColumn(df, c)
                \/ \E c \in {"open", "high", "low", "close"} :
                      \E i \in 1 .. df.n : NotPositive(df.col[c][i])

\* a frame with a null, an OHLC violation and a repeated timestamp is accepted
\* with the three warnings
C11_Witness ==
    /\ ret.fn = "validate_data"
    /\ ret.value.value = TRUE
    /\ {"null", "ohlc", "duplicates"} \subseteq Printed(ret.value)

\* a frame rejected for a price of exactly zero
C11_WitnessZeroPrice ==
    /\ ret.fn = "validate_data"
    /\ ret.value.value = FALSE
    /\ "price" \in Printed(ret.value)
    /\ \A c \in Range(price_columns) :
          \A i \in 1 .. call.df.n : ~FLess(call.df.col[c][i], Num(0))

\* the rows of a frame without nulls whose candle breaks
\* high >= max(open, close, low) and low <= min(open, close, high)
ViolatingCandles(df) ==
    LET v(c, i) == df.col[c][i].v[1]
    IN  {i \in 1 .. df.n :
            \/ \E c \in {"open", "close", "low"} : v("high", i) < v(c, i)
            \/ \E c \in {"open", "close", "high"} : v("low", i) > v(c, i)}

\* the count of the OHLC warning of a result, -1 when it has none
OhlcCount(r) ==
    IF \E i \in DOMAIN r.printed : r.printed[i].msg = "ohlc"
    THEN (CHOOSE w \in Range(r.printed) : w.msg = "ohlc").n
    ELSE -1

\* C19: on a frame that reaches the OHLC check, validate_data prints the OHLC
\* warning exactly when at least one candle violates the invariant, and the
\* count it prints is the number of violating candles, each counted once.
C19_OhlcCountsCandlesOnce ==
    (/\ ret.fn = "validate_data"
     /\ ret.value.value = TRUE
     /\ "null" \notin Printed(ret.value)) =>
        /\ ("ohlc" \in Printed(ret.value)) <=> (ViolatingCandles(call.df) # {})
        /\ ("ohlc" \in Printed(ret.value)) =>
              OhlcCount(ret.value) = Cardinality(ViolatingCandles(call.df))

\* C16: for a non-empty series and a period of at least 1, calculate_ema
\* returns a series of the same length that is defined at every row and whose
\* first row is the first input value.
C16_EmaSeed ==
    (ret.fn = "calculate_ema" /\ Len(call.data) >= 1 /\ call.period >= 1) =>
        /\ Len(ret.value) = Len(call.data)
        /\ \A i \in 1 .. Len(ret.value) : ret.value[i].k = "num"
        /\ ret.value[1] = call.data[1]

\* an EMA of several rows that has moved away from its seed
C16_Witness ==
    /\ ret.fn = "calculate_ema"
    /\ Len(call.data) >= 3
    /\ call.period >= 2
    /\ ret.value[1] = call.data[1]
    /\ ret.value[Len(ret.value)] # ret.value[1]
    /\ ret.value[Len(ret.value)] # call.data[Len(call.data)]

\* the smoothed losses of the series of a calculate_rsi call
CallAvgLosses == AvgLosses(call.data, call.period)

\* C13: at every row after the first where the smoothed average loss is 0,
\* calculate_rsi reports exactly 100 and not NaN; so it does at every row after
\* the first of a flat series (5 closes of 100, period 14).
C13_ZeroLossReportsHundred ==
    (ret.fn = "calculate_rsi") =>
        \A i \in 2 .. Len(call.data) :
            (CallAvgLosses[i] = Num(0)) => (ret.value[i] = Num(100))

\* strictly rising and strictly falling series
Rising(data) == \A i \in 2 .. Len(data) : data[i - 1].v[1] < data[i].v[1]
Falling(data) == \A i \in 2 .. Len(data) : data[i - 1].v[1] > data[i].v[1]

\* a value of the closed interval from 0 to 100
InPercentRange(x) ==
    /\ x.k = "num"
    /\ x.s = 0
    /\ 0 <= x.v[1]
    /\ x.v[1] <= 100 * x.v[2]

\* C14: for a series of at least period + 1 closes, every RSI value that is not
\* NaN lies in [0, 100]; a strictly rising series has RSI 100 and a strictly
\* falling series has RSI 0 at every row after the first.
C14_RsiBound ==
    (ret.fn = "calculate_rsi" /\ Len(call.data) >= call.period + 1) =>
        /\ \A i \in 1 .. Len(ret.value) :
              ret.value[i].k = "nan" \/ InPercentRange(ret.value[i])
        /\ Rising(call.data) =>
              \A i \in 2 .. Len(ret.value) : ret.value[i] = Num(100)
        /\ Falling(call.data) =>
              \A i \in 2 .. Len(ret.value) : ret.value[i] = Num(0)

\* a series that rises and then falls: RSI 100, then strictly inside the range
C14_Witness ==
    /\ ret.fn = "calculate_rsi"
    /\ Len(call.data) >= call.period + 1
    /\ call.period >= 2
    /\ \E i \in 2 .. Len(ret.value) : ret.value[i] = Num(100)
    /\ \E i \in 2 .. Len(ret.value) :
          /\ InPercentRange(ret.value[i])
          /\ ret.value[i].v[1] > 0
          /\ ret.value[i].v[1] < 100 * ret.value[i].v[2]

\* a strictly rising series of period + 1 closes, RSI 100 from the second row
C14_WitnessRising ==
    /\ ret.fn = "calculate_rsi"
    /\ call.period = 3
    /\ Len(call.data) = 4
    /\ Rising(call.data)
    /\ \A i \in 2 .. 4 : ret.value[i] = Num(100)

\* a strictly falling series of period + 1 closes, RSI 0 from the second row
C14_WitnessFalling ==
    /\ ret.fn = "calculate_rsi"
    /\ call.period = 3
    /\ Len(call.data) = 4
    /\ Falling(call.data)
    /\ \A i \in 2 .. 4 : ret.value[i] = Num(0)

\* the three bands of a calculate_bollinger_bands call
Upper == ret.value[1]
Middle == ret.value[2]
Lower == ret.value[3]

\* the three bands are defined at row i
BandsDefined(i) ==
    Upper[i].k = "num" /\ Middle[i].k = "num" /\ Lower[i].k = "num"

\* the three bands are undefined at row i
BandsUndefined(i) ==
    Upper[i].k = "nan" /\ Middle[i].k = "nan" /\ Lower[i].k = "nan"

\* C15: for every series, period and non-negative width, upper >= middle >=
\* lower at every row where the three bands are defined.
C15_BollingerOrdering ==
    (ret.fn = "calculate_bollinger_bands" /\ call.std_dev >= 0) =>
        \A i \in 1 .. Len(call.data) :
            BandsDefined(i) =>
                /\ ~FLess(Upper[i], Middle[i])
                /\ ~FLess(Middle[i], Lower[i])

\* bands that are strictly apart at some row
C15_Witness ==
    /\ ret.fn = "calculate_bollinger_bands"
    /\ call.std_dev >= 1
    /\ \E i \in 1 .. Len(call.data) :
          /\ BandsDefined(i)
          /\ FLess(Middle[i], Upper[i])
          /\ FLess(Lower[i], Middle[i])

\* C20 as stated: for every period of at least 1, the three bands are
\* undefined on exactly the first period - 1 rows and defined from row
\* period - 1 (counted from 0) on.
C20_WarmUpEveryPeriod ==
    (ret.fn = "calculate_bollinger_bands" /\ call.period >= 1) =>
        \A i \in 1 .. Len(call.data) :
            IF i < call.period THEN BandsUndefined(i) ELSE BandsDefined(i)

\* C20: for every period of at least 2, the three bands are undefined on
\* exactly the first period - 1 rows and defined from row period - 1 (counted
\* from 0) on; for period 1 the middle band is defined at every row and the
\* upper and lower bands are undefined at every row.
C20_WarmUpFromPeriodTwo ==
    (ret.fn = "calculate_bollinger_bands") =>
        \A i \in 1 .. Len(call.data) :
            /\ (call.period >= 2 /\ i < call.period) => BandsUndefined(i)
            /\ (call.period >= 2 /\ i >= call.period) => BandsDefined(i)
            /\ (call.period = 1) =>
                  /\ Middle[i].k = "num"
                  /\ Upper[i].k = "nan"
                  /\ Lower[i].k = "nan"

\* a series longer than its period: undefined rows, then defined rows
C20_Witness ==
    /\ ret.fn = "calculate_bollinger_bands"
    /\ call.period = 3
    /\ Len(call.data) = 5
    /\ BandsUndefined(2)
    /\ BandsDefined(3)
    /\ BandsDefined(5)

\* the eleven indicator columns
IndicatorColumns ==
    {"ema_12", "ema_26", "ema_50", "ema_200", "macd", "macd_signal",
     "macd_histogram", "rsi", "bb_upper", "bb_middle", "bb_lower"}

\* C17: validate_indicators returns false exactly when at least one of the
\* eleven indicator columns is absent; an RSI outside [0, 100], inverted bands
\* and NaN cells are reported and do not change the verdict.
C17_ValidateIndicatorsVerdict ==
    (ret.fn = "validate_indicators") =>
        ((ret.value.value = FALSE) <=>
            (\E c \in IndicatorColumns : ~HasColumn(call.df, c)))

\* a frame with an RSI out of range, inverted bands and NaN cells is accepted
\* with the three reports
C17_Witness ==
    /\ ret.fn = "validate_indicators"
    /\ ret.value.value = TRUE
    /\ {"rsi", "bollinger", "nan"} \subseteq Printed(ret.value)

\* C18: add_all_indicators returns a frame with the rows of its input in the
\* same order and the timestamp, open, high, low, close and volume cells
\* unchanged, the eleven indicator columns appended after them in the order
\* ema_12, ema_26, ema_50, ema_200, macd, macd_signal, macd_histogram, rsi,
\* bb_upper, bb_middle, bb_lower; validate_indicators accepts it; the caller's
\* frame is as it was before the call.
C18_AddAllIndicators ==
    (ret.fn = "add_all_indicators") =>
        /\ ret.value.n = call.df.n
        /\ \A c \in Range(call.df.columns) : ret.value.col[c] = call.df.col[c]
        /\ ret.value.columns =
              call.df.columns \o
                  <<"ema_12", "ema_26", "ema_50", "ema_200", "macd",
                    "macd_signal", "macd_histogram", "rsi", "bb_upper",
                    "bb_middle", "bb_lower">>
        /\ \A c \in IndicatorColumns : Len(ret.value.col[c]) = call.df.n
        /\ validate_indicators(ret.value).value = TRUE
        /\ ret.caller = call.df

\* indicators computed over closes that move
C18_Witness ==
    /\ ret.fn = "add_all_indicators"
    /\ call.df.n >= 2
    /\ call.df.col["close"][1] # call.df.col["close"][2]
    /\ ret.value.col["ema_12"][2] # call.df.col["close"][2]
    /\ ret.value.col["macd"][2] # Num(0)
    /\ ret.value.col["rsi"][2].k = "num"
    /\ ~HasColumn(ret.caller, "rsi")

\* the order of the stages of run
StageOrder ==
    <<"fetch", "validate_data", "add_all_indicators", "validate_indicators",
      "save_to_csv">>

\* the stage named was gone through by the current run
WentThrough(name) == \E i \in DOMAIN stages : stages[i].stage = name

\* C12: run goes through fetch, candle validation, indicator computation,
\* indicator validation and persistence in that order; a stage that fails is
\* the last one and the run has raised; indicators are computed only for a
\* fetched series that validate_data accepts; the run has written only a frame
\* that validate_indicators accepts, computed from such a series.
C12_StagesInOrder ==
    /\ Len(stages) <= Len(StageOrder)
    /\ \A i \in DOMAIN stages : stages[i].stage = StageOrder[i]
    /\ \A i \in DOMAIN stages : ~stages[i].ok => (i = Len(stages) /\ run_pc = "raised")
    /\ (run_pc = "raised") => (stages # <<>> /\ ~stages[Len(stages)].ok)
    /\ WentThrough("add_all_indicators") =>
          (~fetched.none /\ validate_data(fetched.df).value = TRUE)
    /\ (WentThrough("save_to_csv") /\ run_pc = "returned") =>
          /\ validate_data(fetched.df).value = TRUE
          /\ validate_indicators(written.df).value = TRUE
          /\ written.df = add_all_indicators(fetched.df).value
    /\ (run_pc = "raised" /\ calls = 1) => written = Nothing

\* a run that went through the five stages and wrote a series of two candles
C12_Witness ==
    /\ run_pc = "returned"
    /\ Len(stages) = 5
    /\ ~written.none
    /\ written.df.n = 2
    /\ HasColumn(written.df, "bb_lower")

\* a run that raised at the candle validation and wrote nothing
C12_WitnessAbort ==
    /\ run_pc = "raised"
    /\ Len(stages) = 2
    /\ ~fetched.none
    /\ fetched.df.n = 2
    /\ written = Nothing

\* a non-empty batch was appended by this step
BatchAppended == batch_count' = batch_count + 1

\* C21: when every request is answered in the end and no page holds a row
\* before `since`, every non-empty batch moves the cursor strictly forward, and
\* every call ends: it returns a series or raises NoDataCollected, nothing else.
C21_Termination ==
    /\ [][BatchAppended => current_ts' > current_ts]_all_vars
    /\ [](pc = "raised" => error = "NoDataCollected")
    /\ (~Ended ~> Ended)

\* a call that ended because the cursor passed end_ts, after several batches
C21_Witness ==
    /\ pc = "returned"
    /\ batch_count >= 2
    /\ current_ts >= end_ts

\* a call that ended with NoDataCollected after a request that had raised
C21_WitnessRaised ==
    /\ pc = "raised"
    /\ error = "NoDataCollected"
    /\ in_flight = 0
    /\ all_data = <<>>

\* the rows the call fetched, batch after batch
FetchedRows == Concat(all_data)

\* C22: a series the call returns holds at least one row; when no fetched row
\* lies in the requested window the call raises NoDataCollected instead.
C22_ReturnedSeriesNonEmpty ==
    /\ pc = "returned" => combined_df # <<>>
    /\ (Ended /\ \A i \in 1 .. Len(FetchedRows) :
                    ~(start_ts <= ToMs(FetchedRows[i].timestamp)
                      /\ ToMs(FetchedRows[i].timestamp) <= end_ts))
           => pc = "raised" /\ error = "NoDataCollected"

\* the most recent run passed the stage named
Passed(name) == \E i \in DOMAIN stages : stages[i] = Stage(name, TRUE)

\* C23: whatever runs and save_to_csv calls came before, a save_to_csv called
\* on the pipeline raises because nothing is held (and writes nothing), or it
\* writes the series that passed the candle validation and the indicator
\* validation of the most recent run.
C23_SavesOnlyValidated ==
    [][SaveToCsv =>
          \/ self_data = Nothing /\ written' = written
          \/ /\ Passed("validate_data")
             /\ Passed("validate_indicators")
             /\ written' = self_data]_all_vars
====
